---------------------------- MODULE Spec2Model ----------------------------
(***************************************************************************)
(* A model of the health & fitness tracker (src/main.py) and of its image  *)
(* analysis module (src/app.py).                                           *)
(*                                                                         *)
(*   Spec          one browser session: every user event reruns main()     *)
(*   SpecSessions  two sessions interleaving load / concat / save on the   *)
(*                 food log                                                *)
(*   SpecScore     calculate_health_score applied to bounded records       *)
(*   SpecBmi       calculate_bmi / get_bmi_category on bounded inputs      *)
(*   SpecCalories  calculate_daily_calories on bounded inputs              *)
(*                                                                         *)
(* A Python float is a binary64 number, and its arithmetic is computed bit  *)
(* for bit; a BMI, rounded to two places, is kept in hundredths.  CSV      *)
(* cells are text; the in-memory DataFrame holds what pandas' read_csv     *)
(* makes of the text.  The profile file holds what json.dump writes of     *)
(* the profile dict, and load_data parses it again.                        *)
(***************************************************************************)
EXTENDS Integers, Sequences, FiniteSets, TLC

VARIABLES
    user_data_file,    \* data/user_data.json
    progress_file,     \* data/progress_data.csv
    food_log_file,     \* data/food_log.csv
    workout_log_file,  \* data/workout_log.csv
    api_key,           \* whether GOOGLE_API_KEY is set in the environment
    page,              \* the sidebar radio "Go to"
    uploaded_file,     \* the file_uploader's value on the Food Analyzer page
    image_type,        \* the radio "What are you uploading?"
    clicked,           \* the button whose click triggered the last script run
    shown,             \* buttons, sections and messages the last run rendered
    st_error,          \* text of the st.error of the last run, in parts
    profile_reads,     \* profile keys the last run read (sidebar and page)
    escaped,           \* the exception that escaped the last run
    model_reply,       \* what the hosted model answers to a request in this run
    model_requests,    \* requests the last run sent to the hosted model
    analysis,          \* outcome of analyze_nutrition in the last run
    profile_form,      \* widget values of the User Profile page in the last run
    sessions,          \* SpecSessions: each session's position and locals
    call               \* pure-function specifications: arguments and result

vars == <<user_data_file, progress_file, food_log_file, workout_log_file,
          api_key, page, uploaded_file, image_type, clicked, shown, st_error,
          profile_reads, escaped, model_reply, model_requests, analysis,
          profile_form, sessions, call>>

\* What the steps of SpecSessions leave alone.
otherVars == <<user_data_file, progress_file, workout_log_file, api_key, page,
               uploaded_file, image_type, clicked, shown, st_error,
               profile_reads, escaped, model_reply, model_requests, analysis,
               profile_form, call>>
\* What the pure-function specifications leave alone.
appVars == <<user_data_file, progress_file, food_log_file, workout_log_file,
             api_key, page, uploaded_file, image_type, clicked, shown,
             st_error, profile_reads, escaped, model_reply, model_requests,
             analysis, profile_form, sessions>>

(***************************************************************************)
(* Bounds of the model.                                                    *)
(***************************************************************************)
MaxFoodRows == 2
MaxWorkoutRows == 1
MaxProgressRows == 1

\* datetime.now().strftime("%Y-%m-%d"): all runs happen on one day
Today == "2026-11-02"

(***************************************************************************)
(* Exceptions and results.                                                 *)
(***************************************************************************)
NoExc == [type |-> "none", msg |-> <<>>]
Exc(type, msg) == [type |-> type, msg |-> msg]
NoValue == [kind |-> "none"]
Returned(v, n) == [raised |-> NoExc, value |-> v, requests |-> n]
Raised(e, n) == [raised |-> e, value |-> NoValue, requests |-> n]
NotRun == [raised |-> NoExc, value |-> [kind |-> "not run"], requests |-> 0]

\* dict.get(key, default)
Get(d, key, default) == IF key \in DOMAIN d THEN d[key] ELSE default

(***************************************************************************)
(* Files.  A CSV file is absent or holds a header and rows of text cells.  *)
(***************************************************************************)
AbsentFile == [exists |-> FALSE, rows |-> <<>>]
CsvFile(rows) == [exists |-> TRUE, rows |-> rows]

\* The float nan object of an in-memory DataFrame (not a text).
NaN == "<float nan>"

\* Texts pandas.read_csv turns into nan with its default arguments.
NaValues == {"", "#N/A", "#N/A N/A", "#NA", "-1.#IND", "-1.#QNAN", "-NaN",
             "-nan", "1.#IND", "1.#QNAN", "<NA>", "N/A", "NA", "NULL", "NaN",
             "n/a", "nan", "null"}

\* pd.read_csv on one cell
ReadCell(text) == IF text \in NaValues THEN NaN ELSE text
\* DataFrame.to_csv on one cell (na_rep is the empty text)
WriteCell(v) == IF v = NaN THEN "" ELSE v

ReadRow(r) == [k \in DOMAIN r |-> ReadCell(r[k])]
WriteRow(r) == [k \in DOMAIN r |-> WriteCell(r[k])]

\* pd.read_csv(path): the DataFrame of an existing file
read_csv(file) == [i \in 1..Len(file.rows) |-> ReadRow(file.rows[i])]
\* df.to_csv(path, index=False): the whole file is rewritten
to_csv(df) == CsvFile([i \in 1..Len(df) |-> WriteRow(df[i])])

\* pd.DataFrame(columns=[...]) and the except FileNotFoundError branches
EmptyDataFrame == <<>>
\* pd.concat([df, new_entry], ignore_index=True)
concat(df, new_entry) == df \o new_entry

load_progress(file) == IF file.exists THEN read_csv(file) ELSE EmptyDataFrame
save_progress(df) == to_csv(df)
load_food_log(file) == IF file.exists THEN read_csv(file) ELSE EmptyDataFrame
save_food_log(df) == to_csv(df)
load_workout_log(file) == IF file.exists THEN read_csv(file) ELSE EmptyDataFrame
save_workout_log(df) == to_csv(df)

\* The values of the profile dict in memory.  A float of the profile form
\* holds a whole number (the form is filled in whole kilograms and
\* centimetres).
PyFloat(n) == [type |-> "float", v |-> n]
PyInt(n) == [type |-> "int", v |-> n]
PyStr(s) == [type |-> "str", v |-> s]
PyList(items) == [type |-> "list", v |-> items]
\* None, which dict.get returns for a missing key
PyNone == [type |-> "NoneType"]

\* The text of a JSON number, character by character.
Digits == <<"0", "1", "2", "3", "4", "5", "6", "7", "8", "9">>
\* int.__repr__, which json.dump writes for an int
RECURSIVE IntRepr(_)
IntRepr(n) ==
    IF n < 10 THEN <<Digits[n + 1]>>
    ELSE IntRepr(n \div 10) \o <<Digits[(n % 10) + 1]>>
\* float.__repr__, which json.dump writes for a float
FloatRepr(n) == IntRepr(n) \o <<".", "0">>

\* json.dump on one value: a number's text, a string, an array
RECURSIVE json_encode(_)
json_encode(value) ==
    CASE value.type = "float" -> [json |-> "number", text |-> FloatRepr(value.v)]
      [] value.type = "int" -> [json |-> "number", text |-> IntRepr(value.v)]
      [] value.type = "str" -> [json |-> "string", text |-> value.v]
      [] value.type = "list" ->
             [json |-> "array",
              items |-> [i \in 1..Len(value.v) |-> json_encode(value.v[i])]]
\* json.dump(data, file): the object's members, each value as JSON text
json_dump(data) == [k \in DOMAIN data |-> json_encode(data[k])]

DigitValue(c) == CHOOSE d \in 0..9 : Digits[d + 1] = c
RECURSIVE DigitsValue(_)
DigitsValue(text) ==
    IF text = <<>> THEN 0
    ELSE DigitsValue(SubSeq(text, 1, Len(text) - 1)) * 10
             + DigitValue(text[Len(text)])
PointAt(text) == {i \in 1..Len(text) : text[i] = "."}
\* json's number scanner: an int without a fraction part, a float with one
\* (the fraction of a whole-valued float's text is 0)
ParseNumber(text) ==
    IF PointAt(text) = {} THEN PyInt(DigitsValue(text))
    ELSE PyFloat(DigitsValue(SubSeq(text, 1, (CHOOSE i \in PointAt(text) : TRUE) - 1)))

\* ParseNumber tabulated over the numbers a profile can hold, so that a
\* load looks the text up instead of scanning it again.
MaxNumber == 250
NumberTexts == {IntRepr(n) : n \in 0..MaxNumber} \cup {FloatRepr(n) : n \in 0..MaxNumber}
NumberTable == [text \in NumberTexts |-> ParseNumber(text)]
scan_number(text) ==
    IF text \in NumberTexts THEN NumberTable[text] ELSE ParseNumber(text)

\* json.load on one value
RECURSIVE json_decode(_)
json_decode(j) ==
    CASE j.json = "number" -> scan_number(j.text)
      [] j.json = "string" -> PyStr(j.text)
      [] j.json = "array" ->
             PyList([i \in 1..Len(j.items) |-> json_decode(j.items[i])])
\* json.load(file)
json_load(text) == [k \in DOMAIN text |-> json_decode(text[k])]

\* The user profile: absent, or one JSON object.
EmptyProfile == [k \in {} |-> ""]
AbsentProfile == [exists |-> FALSE, data |-> EmptyProfile]
load_data(file) == IF file.exists THEN json_load(file.data) ELSE EmptyProfile
save_data(data) == [exists |-> TRUE, data |-> json_dump(data)]
\* "if not user_data"
IsEmpty(user_data) == DOMAIN user_data = {}

\* float(x) written by to_csv
FloatText(n) == ToString(n) \o ".0"
\* an int written by to_csv
IntText(n) == ToString(n)


(***************************************************************************)
(* Python's float is the IEEE-754 binary64 number: 53 significant bits,    *)
(* every operation rounded to the nearest, a tie to the even mantissa.     *)
(* A natural number is a tuple of limbs below 2^14, the least significant  *)
(* first, so that a product of two limbs stays within the integers.        *)
(***************************************************************************)
Limb == 2^14
HeadOr0(a) == IF a = <<>> THEN 0 ELSE Head(a)
Rest(a) == IF a = <<>> THEN <<>> ELSE Tail(a)
LimbAt(a, i) == IF i >= 1 /\ i <= Len(a) THEN a[i] ELSE 0

RECURSIVE BigAddC(_, _, _)
BigAddC(a, b, carry) ==
    IF a = <<>> /\ b = <<>>
    THEN IF carry = 0 THEN <<>> ELSE <<carry>>
    ELSE <<(HeadOr0(a) + HeadOr0(b) + carry) % Limb>>
             \o BigAddC(Rest(a), Rest(b),
                        (HeadOr0(a) + HeadOr0(b) + carry) \div Limb)
BigAdd(a, b) == BigAddC(a, b, 0)

\* a - b for a >= b
RECURSIVE BigSubB(_, _, _)
BigSubB(a, b, borrow) ==
    IF a = <<>> THEN <<>>
    ELSE <<(Limb + Head(a) - HeadOr0(b) - borrow) % Limb>>
             \o BigSubB(Tail(a), Rest(b),
                        IF Head(a) - HeadOr0(b) - borrow < 0 THEN 1 ELSE 0)
BigSub(a, b) == BigSubB(a, b, 0)

RECURSIVE BigMulLimb(_, _, _)
BigMulLimb(a, d, carry) ==
    IF a = <<>>
    THEN IF carry = 0 THEN <<>> ELSE <<carry>>
    ELSE <<((Head(a) * d) + carry) % Limb>>
             \o BigMulLimb(Tail(a), d, ((Head(a) * d) + carry) \div Limb)
RECURSIVE BigMul(_, _)
BigMul(a, b) ==
    IF b = <<>> THEN <<>>
    ELSE BigAdd(BigMulLimb(a, Head(b), 0), <<0>> \o BigMul(a, Tail(b)))

LimbBitLen(v) == CHOOSE k \in 0..14 : v < 2^k /\ (k = 0 \/ v >= 2^(k - 1))
BitLenStep(low, upper) == IF upper > 0 THEN 14 + upper ELSE LimbBitLen(low)
RECURSIVE BigBitLen(_)
BigBitLen(a) ==
    IF a = <<>> THEN 0 ELSE BitLenStep(Head(a), BigBitLen(Tail(a)))

\* a * 2^k and the whole part of a / 2^k
BigShl(a, k) ==
    [i \in 1..(Len(a) + (k \div 14) + 1) |->
        ((LimbAt(a, i - (k \div 14)) * 2^(k % 14)) % Limb)
            + (LimbAt(a, i - (k \div 14) - 1) \div 2^(14 - (k % 14)))]
BigShr(a, k) ==
    IF Len(a) <= k \div 14 THEN <<>>
    ELSE [i \in 1..(Len(a) - (k \div 14)) |->
             (LimbAt(a, i + (k \div 14)) \div 2^(k % 14))
                 + ((LimbAt(a, i + (k \div 14) + 1) % 2^(k % 14))
                        * 2^(14 - (k % 14)))]
\* bit i of a, and whether the bits below bit k are all zero
BigBit(a, i) == (LimbAt(a, (i \div 14) + 1) \div 2^(i % 14)) % 2
BigLowZero(a, k) ==
    /\ \A j \in 1..(k \div 14) : LimbAt(a, j) = 0
    /\ LimbAt(a, (k \div 14) + 1) % 2^(k % 14) = 0
RECURSIVE BigToInt(_)
BigToInt(a) == IF a = <<>> THEN 0 ELSE Head(a) + (Limb * BigToInt(Tail(a)))
BigFromInt(n) == <<n % Limb, (n \div Limb) % Limb, n \div (Limb * Limb)>>

\* a / 2^k rounded to the nearest whole number, a tie to the even one
BigRoundShr(a, k) ==
    IF k > 0 /\ BigBit(a, k - 1) = 1
             /\ (~BigLowZero(a, k - 1) \/ BigBit(a, k) = 1)
    THEN BigAdd(BigShr(a, k), <<1>>)
    ELSE BigShr(a, k)

\* A positive float is [m, e] for m * 2^e with a mantissa m of 53 bits in
\* four limbs, and 0.0 is the mantissa 0 with the exponent 0.
Renormalise(m, e) ==
    IF BigBitLen(m) > 53 THEN [m |-> SubSeq(BigShr(m, 1), 1, 4), e |-> e + 1]
    ELSE [m |-> SubSeq(m, 1, 4), e |-> e]
\* the float nearest to n * 2^e
FloatOf(n, e) ==
    IF BigBitLen(n) = 0 THEN [m |-> <<0, 0, 0, 0>>, e |-> 0]
    ELSE IF BigBitLen(n) <= 53
    THEN [m |-> SubSeq(BigShl(n, 53 - BigBitLen(n)), 1, 4),
          e |-> e - (53 - BigBitLen(n))]
    ELSE Renormalise(BigRoundShr(n, BigBitLen(n) - 53), e + (BigBitLen(n) - 53))
FloatMin(a, b) == IF a < b THEN a ELSE b
\* float(n) of an int n, and x * y, x + y, x - y (x >= y) on floats
float(n) == FloatOf(BigFromInt(n), 0)
float_mul(x, y) == FloatOf(BigMul(x.m, y.m), x.e + y.e)
float_add(x, y) ==
    FloatOf(BigAdd(BigShl(x.m, x.e - FloatMin(x.e, y.e)),
                   BigShl(y.m, y.e - FloatMin(x.e, y.e))),
            FloatMin(x.e, y.e))
float_sub(x, y) ==
    FloatOf(BigSub(BigShl(x.m, x.e - FloatMin(x.e, y.e)),
                   BigShl(y.m, y.e - FloatMin(x.e, y.e))),
            FloatMin(x.e, y.e))
\* round(x): the nearest int, a tie to the even one (x below 2^31)
round(x) ==
    IF x.e >= 0 THEN BigToInt(BigShl(x.m, x.e))
    ELSE BigToInt(BigRoundShr(x.m, 0 - x.e))
\* The float a decimal literal denotes, by its mantissa limbs and exponent.
FloatLiteral(l0, l1, l2, l3, e) == [m |-> <<l0, l1, l2, l3>>, e |-> e]

\* a < b, and the whole part and the remainder of n / d for a divisor d of
\* four limbs with its top bit set: one quotient limb for each limb of n,
\* estimated from the two top limbs of the running remainder and lowered
\* until it fits
BigLess(a, b) ==
    \E i \in 1..(Len(a) + Len(b)) :
        /\ LimbAt(a, i) < LimbAt(b, i)
        /\ \A j \in (i + 1)..(Len(a) + Len(b)) : LimbAt(a, j) = LimbAt(b, j)
QuotientLimb(rem, d, estimate) ==
    CHOOSE q \in {estimate - 2, estimate - 1, estimate} :
        /\ q >= 0
        /\ ~BigLess(rem, BigMulLimb(d, q, 0))
        /\ BigLess(rem, BigMulLimb(d, q + 1, 0))
DivStep(rem, d, q, upper) ==
    [q |-> <<q>> \o upper,
     r |-> SubSeq(BigSub(rem, BigMulLimb(d, q, 0)), 1, 4)]
DivLimb(rem, d, upper) ==
    DivStep(rem, d,
            QuotientLimb(rem, d,
                         FloatMin(Limb - 1,
                                  ((rem[5] * Limb) + rem[4]) \div d[4])),
            upper)
DivNext(low, upper, d) == DivLimb(<<low>> \o upper.r, d, upper.q)
RECURSIVE BigDivMod(_, _)
BigDivMod(n, d) ==
    IF n = <<>> THEN [q |-> <<>>, r |-> <<0, 0, 0, 0>>]
    ELSE DivNext(Head(n), BigDivMod(Tail(n), d), d)

\* what x / 0.0 raises, in the place of a quotient
ZeroDivisionError == [m |-> <<>>, e |-> 0]
\* x / y on floats: 57 or 58 bits of the quotient, the last one set when
\* the division leaves a remainder, rounded to 53
Sticky(qr) == BigAdd(BigShl(qr.q, 1), IF BigBitLen(qr.r) = 0 THEN <<>> ELSE <<1>>)
float_div(x, y) ==
    IF BigBitLen(y.m) = 0 THEN ZeroDivisionError
    ELSE FloatOf(Sticky(BigDivMod(BigShl(x.m, 59),
                                  SubSeq(BigShl(y.m, 3), 1, 4))),
                 x.e - y.e - 57)
\* round(x, 2), in hundredths: the whole number nearest to 100 * x, a tie
\* to the even one
round2(x) == BigToInt(BigRoundShr(BigMulLimb(x.m, 100, 0), 0 - x.e))
\* x < y on floats
float_less(x, y) ==
    BigLess(BigShl(x.m, x.e - FloatMin(x.e, y.e)),
            BigShl(y.m, y.e - FloatMin(x.e, y.e)))
\* round(x - y), whichever of the two is the larger
round_difference(x, y) ==
    IF float_less(x, y) THEN 0 - round(float_sub(y, x))
    ELSE round(float_sub(x, y))

(***************************************************************************)
(* src/app.py: NutritionAnalyzer.                                          *)
(***************************************************************************)
\* self.thresholds
thresholds == [calories |-> 300, sugar |-> 25, saturated_fat |-> 5,
               sodium |-> 600, protein |-> 5]

\* Mutant of component_scores: the calories bound taken as exclusive.
component_scores_strict(nutrition_data) ==
    [calories |-> IF Get(nutrition_data, "calories", 0) < thresholds.calories
                  THEN 1 ELSE 0,
     sugar |-> IF Get(nutrition_data, "sugar", 0) <= thresholds.sugar
               THEN 1 ELSE 0,
     saturated_fat |->
         IF Get(nutrition_data, "saturated_fat", 0) <= thresholds.saturated_fat
         THEN 1 ELSE 0,
     sodium |-> IF Get(nutrition_data, "sodium", 0) <= thresholds.sodium
                THEN 1 ELSE 0,
     protein |-> IF Get(nutrition_data, "protein", 0) >= thresholds.protein
                 THEN 1 ELSE 0]

\* The component scores of calculate_health_score.
component_scores(nutrition_data) ==
    [calories |-> IF Get(nutrition_data, "calories", 0) <= thresholds.calories
                  THEN 1 ELSE 0,
     sugar |-> IF Get(nutrition_data, "sugar", 0) <= thresholds.sugar
               THEN 1 ELSE 0,
     saturated_fat |->
         IF Get(nutrition_data, "saturated_fat", 0) <= thresholds.saturated_fat
         THEN 1 ELSE 0,
     sodium |-> IF Get(nutrition_data, "sodium", 0) <= thresholds.sodium
                THEN 1 ELSE 0,
     protein |-> IF Get(nutrition_data, "protein", 0) >= thresholds.protein
                 THEN 1 ELSE 0]

\* sum(scores.values())
SumValues(scores) ==
    scores.calories + scores.sugar + scores.saturated_fat + scores.sodium
        + scores.protein

\* total_score is the float sum(scores.values()) / len(scores) * 100
calculate_health_score(nutrition_data) ==
    [total_score |->
         float_mul(float_div(float(SumValues(component_scores(nutrition_data))),
                             float(Cardinality(DOMAIN component_scores(nutrition_data)))),
                   float(100)),
     component_scores |-> component_scores(nutrition_data)]

\* Python binds the instance as first argument of a method call: a call
\* with nargs arguments fits a def with nparams parameters iff
\* nparams = nargs + 1; otherwise the call raises TypeError before the body.
MethodCallFits(nparams, nargs) == nparams = nargs + 1

TypeErrorArgs(name, nparams, nargs) ==
    Exc("TypeError",
        <<name \o "() takes " \o ToString(nparams)
              \o " positional argument(s) but " \o ToString(nargs + 1)
              \o " were given">>)

\* Image.open and the convert/resize of preprocess_image
preprocess_image(image_file) ==
    IF image_file = "decodable"
    THEN Returned("image", 0)
    ELSE Raised(Exc("ValueError",
                    <<"Error processing image: ", "cannot identify image file">>), 0)

\* def get_analysis_prompt(image_type): declared in the class without self
get_analysis_prompt_params == 1
get_analysis_prompt_body(type) ==
    IF type = "Food Label" THEN "food label prompt" ELSE "food image prompt"
\* analyzer.get_analysis_prompt(image_type)
get_analysis_prompt(type) ==
    IF MethodCallFits(get_analysis_prompt_params, 1)
    THEN Returned(get_analysis_prompt_body(type), 0)
    ELSE Raised(TypeErrorArgs("get_analysis_prompt",
                              get_analysis_prompt_params, 1), 0)

\* response.text.strip('`').strip(), then a leading "json" dropped
StripFence(reply) == IF reply.kind = "fenced json" THEN "json" ELSE reply.kind

\* def extract_nutrition_info(self, image): its body sends its own prompt
\* (the nutrition label one) in one generate_content request
extract_nutrition_info_params == 2
extract_nutrition_info_body(image, reply) ==
    IF reply.kind = "api error"
    THEN Raised(Exc("ValueError",
                    <<"Error analyzing image: ", "request failed">>), 1)
    ELSE IF StripFence(reply) = "json"
         THEN Returned(reply.body, 1)
         ELSE Raised(Exc("ValueError",
                         <<"Error analyzing image: ", "Expecting value">>), 1)
\* analyzer.extract_nutrition_info(processed_image, prompt)
extract_nutrition_info(image, prompt, reply) ==
    IF MethodCallFits(extract_nutrition_info_params, 2)
    THEN extract_nutrition_info_body(image, reply)
    ELSE Raised(TypeErrorArgs("extract_nutrition_info",
                              extract_nutrition_info_params, 2), 0)

\* except Exception as e: raise ValueError(f"Analysis failed: {str(e)}")
AnalysisFailed(r) ==
    Raised(Exc("ValueError", <<"Analysis failed: ">> \o r.raised.msg),
           r.requests)

\* The two return statements of analyze_nutrition.
AnalysisValue(type, result) ==
    IF type = "Food Label"
    THEN Returned([kind |-> "label", nutrition_data |-> result,
                   health_score |-> calculate_health_score(result)], 1)
    ELSE IF {"food_items", "total_calories"} \subseteq DOMAIN result
         THEN Returned([kind |-> "image", food_items |-> result.food_items,
                        nutrition_data |->
                            [calories |-> result.total_calories, protein |-> 0,
                             carbohydrates |-> 0, fat |-> 0]], 1)
         ELSE Raised(Exc("KeyError", <<"'food_items'">>), 1)

\* One statement of the try block: an exception of the statement ends
\* the block in its except clause, a value goes on to the rest of it.
TryStep(r, rest(_)) == IF r.raised # NoExc THEN AnalysisFailed(r) ELSE rest(r)

analyze_nutrition(image_file, type, reply) ==
    TryStep(preprocess_image(image_file), LAMBDA processed_image :
    TryStep(get_analysis_prompt(type), LAMBDA prompt :
    TryStep(extract_nutrition_info(processed_image.value, prompt.value, reply),
            LAMBDA result :
    TryStep(AnalysisValue(type, result.value), LAMBDA ret : ret))))

\* "from app import analyze_nutrition": the module raises at import when
\* GOOGLE_API_KEY is not set
import_app(key) ==
    IF key THEN NoExc
    ELSE Exc("ValueError", <<"GOOGLE_API_KEY not found in environment variables">>)

\* Replies of the hosted model.
LabelJson == [calories |-> 250, protein |-> 10, carbohydrates |-> 30, fat |-> 8]
ImageJson == [food_items |-> <<[name |-> "Rice", calories |-> 200],
                               [name |-> "Egg", calories |-> 90]>>,
              total_calories |-> 290]
ModelReplies == {[kind |-> "api error", body |-> EmptyProfile],
                 [kind |-> "text", body |-> EmptyProfile],
                 [kind |-> "json", body |-> LabelJson],
                 [kind |-> "fenced json", body |-> LabelJson],
                 [kind |-> "json", body |-> ImageJson]}
NoReply == [kind |-> "none", body |-> EmptyProfile]

(***************************************************************************)
(* src/main.py: utility functions.                                         *)
(***************************************************************************)
\* The floats that the decimal literals of calculate_daily_calories denote.
FloatLiterals ==
    ("88.362" :> FloatLiteral(2490, 2097, 12976, 1413, -46))
    @@ ("13.397" :> FloatLiteral(1573, 5636, 13369, 1714, -49))
    @@ ("4.799" :> FloatLiteral(1049, 14680, 8912, 1228, -50))
    @@ ("5.677" :> FloatLiteral(4456, 13238, 5111, 1453, -50))
    @@ ("447.593" :> FloatLiteral(10355, 13893, 6094, 1790, -44))
    @@ ("9.247" :> FloatLiteral(14680, 8912, 10092, 1183, -49))
    @@ ("3.098" :> FloatLiteral(4194, 9568, 2883, 1586, -51))
    @@ ("4.330" :> FloatLiteral(14418, 5242, 7864, 1108, -50))
    @@ ("1.2" :> FloatLiteral(13107, 3276, 13107, 1228, -52))
    @@ ("1.375" :> FloatLiteral(0, 0, 0, 1408, -52))
    @@ ("1.55" :> FloatLiteral(3277, 13107, 3276, 1587, -52))
    @@ ("1.725" :> FloatLiteral(6554, 9830, 6553, 1766, -52))
    @@ ("1.9" :> FloatLiteral(9830, 6553, 9830, 1945, -52))

\* calculate_bmi: what it raises, and the result in hundredths.  weight and
\* height_cm are the whole numbers of the profile form; height_m * height_m
\* is 0.0 for a height_cm of 0 only, where weight / 0.0 raises.
calculate_bmi_raised(weight, height_cm) ==
    IF height_cm = 0
    THEN Exc("ZeroDivisionError", <<"float division by zero">>)
    ELSE NoExc
Squared(height_m) == float_mul(height_m, height_m)
calculate_bmi(weight, height_cm) ==
    IF calculate_bmi_raised(weight, height_cm) # NoExc
    THEN Raised(calculate_bmi_raised(weight, height_cm), 0)
    ELSE Returned(round2(float_div(float(weight),
                                   Squared(float_div(float(height_cm),
                                                     float(100))))), 0)

\* Mutant of get_bmi_category: the boundary 25 left to the lower category.
get_bmi_category_inclusive(bmi) ==
    IF bmi < 1850 THEN "Underweight"
    ELSE IF bmi <= 2500 THEN "Normal weight"
    ELSE IF bmi < 3000 THEN "Overweight"
    ELSE "Obese"

\* get_bmi_category on a BMI in hundredths: 18.5, 25 and 30 are floats, and
\* so is every hundredth below 18.5, 25 and 30 a float below them
get_bmi_category(bmi) ==
    IF bmi < 1850 THEN "Underweight"
    ELSE IF bmi < 2500 THEN "Normal weight"
    ELSE IF bmi < 3000 THEN "Overweight"
    ELSE "Obese"

activity_multipliers ==
    ("Sedentary" :> FloatLiterals["1.2"]) @@ ("Light" :> FloatLiterals["1.375"])
        @@ ("Moderate" :> FloatLiterals["1.55"])
        @@ ("Active" :> FloatLiterals["1.725"])
        @@ ("Very Active" :> FloatLiterals["1.9"])

\* The Harris-Benedict BMR, summed from the left as Python does; for the
\* persons of the profile form the sum stays above the age term.
bmr(weight, height, age, gender) ==
    IF gender = "Male"
    THEN float_sub(float_add(float_add(FloatLiterals["88.362"],
                                       float_mul(FloatLiterals["13.397"],
                                                 float(weight))),
                             float_mul(FloatLiterals["4.799"], float(height))),
                   float_mul(FloatLiterals["5.677"], float(age)))
    ELSE float_sub(float_add(float_add(FloatLiterals["447.593"],
                                       float_mul(FloatLiterals["9.247"],
                                                 float(weight))),
                             float_mul(FloatLiterals["3.098"], float(height))),
                   float_mul(FloatLiterals["4.330"], float(age)))

\* Mutant of calculate_daily_calories: the 500 calories of Weight Gain added
\* to the BMR, before the activity multiplier.
calculate_daily_calories_bmr_offset(weight, height, age, gender, activity_level, goal) ==
    IF goal = "Weight Loss"
    THEN round_difference(float_mul(bmr(weight, height, age, gender),
                                    activity_multipliers[activity_level]),
                          float(500))
    ELSE IF goal = "Weight Gain"
    THEN round(float_mul(float_add(bmr(weight, height, age, gender),
                                   float(500)),
                         activity_multipliers[activity_level]))
    ELSE round(float_mul(bmr(weight, height, age, gender),
                         activity_multipliers[activity_level]))

AdjustedForGoal(maintenance_calories, goal) ==
    IF goal = "Weight Loss"
    THEN round_difference(maintenance_calories, float(500))
    ELSE IF goal = "Weight Gain"
    THEN round(float_add(maintenance_calories, float(500)))
    ELSE round(maintenance_calories)
calculate_daily_calories(weight, height, age, gender, activity_level, goal) ==
    AdjustedForGoal(float_mul(bmr(weight, height, age, gender),
                              activity_multipliers[activity_level]),
                    goal)

EXERCISE_CATEGORIES ==
    ("Cardio" :> [exercises |-> <<"Walking", "Running", "Cycling", "Swimming",
                                  "Jump Rope">>,
                  calories_per_minute |-> 7])
    @@ ("Strength" :> [exercises |-> <<"Push-ups", "Pull-ups", "Squats",
                                       "Lunges", "Planks", "Deadlifts">>,
                       calories_per_minute |-> 5])
    @@ ("Flexibility" :> [exercises |-> <<"Yoga", "Stretching", "Pilates">>,
                          calories_per_minute |-> 3])
    @@ ("HIIT" :> [exercises |-> <<"Burpees", "Mountain Climbers", "Box Jumps",
                                   "Sprint Intervals">>,
                   calories_per_minute |-> 10])

(***************************************************************************)
(* src/main.py: the pages.  A page function is given the button whose      *)
(* click triggered the run (btn) and the widget values (inp), and yields   *)
(* the files it leaves and what it rendered.                               *)
(***************************************************************************)
\* st.button(label): true only in the run its own click triggered
st_button(label, btn) == btn = label

ButtonLabels == {"Save Profile", "Analyze", "Add to Food Log", "Add Food Item",
                 "Log Exercise", "Log Weight"}
Pages == {"Home", "User Profile", "Food Analyzer", "Exercise Tracker",
          "Progress Tracker"}

ProfileKeys == {"weight", "height", "age", "gender", "target_weight", "goal",
                "exercise_level", "dietary_pref", "allergies", "last_updated"}
\* user_data[...] in main's sidebar
SidebarKeys == {"weight", "height", "age", "gender", "exercise_level", "goal"}
\* user_data[...] in home_page
HomeKeys == SidebarKeys \cup {"target_weight"}

KeyError(keys) == Exc("KeyError", <<"missing profile key">>)

\* The widgets of the User Profile page: not rendered, or not touched by
\* the user since they were rendered.
NoForm == [k \in {} |-> ""]

\* What a run leaves when it changes and renders nothing.
Same ==
    [user |-> user_data_file, progress |-> progress_file,
     food |-> food_log_file, workout |-> workout_log_file,
     shown |-> {}, err |-> <<>>, reads |-> {}, esc |-> NoExc,
     req |-> 0, an |-> NotRun, form |-> NoForm]

home_page ==
    LET user_data == load_data(user_data_file)
    IN  IF IsEmpty(user_data)
        THEN [Same EXCEPT !.shown = {"info: Welcome! Please complete your profile to get started."}]
        ELSE IF ~(HomeKeys \subseteq DOMAIN user_data)
        THEN [Same EXCEPT !.reads = HomeKeys \cap DOMAIN user_data,
                          !.esc = KeyError(HomeKeys)]
        ELSE IF calculate_bmi_raised(user_data.weight.v, user_data.height.v) # NoExc
        THEN [Same EXCEPT
                 !.reads = {"weight", "height"},
                 !.esc = calculate_bmi_raised(user_data.weight.v,
                                              user_data.height.v)]
        ELSE [Same EXCEPT
                 !.reads = HomeKeys,
                 !.shown = {"metric: BMI", "metric: Weight Goal",
                            "metric: Calories", "metric: Calories Burned"}]

\* The options of the profile form's select boxes.
GenderOptions == <<"Male", "Female">>
GoalOptions == <<"Weight Loss", "Maintenance", "Weight Gain">>
ActivityOptions == <<"Sedentary", "Light", "Moderate", "Active", "Very Active">>
DietOptions == <<"Vegetarian", "Vegan", "Non-Vegetarian">>

\* st.number_input(label, min, max, value=...): min, max and value must be
\* all ints or all floats
number_input_raised(type, value) ==
    IF value.type = type THEN NoExc
    ELSE Exc("StreamlitMixedNumericTypesError", <<"all numerical arguments must be of the same type">>)
\* options.index(value) raises for a value that is not an option
index_raised(options, value) ==
    IF value.type = "str" /\ \E i \in 1..Len(options) : options[i] = value.v
    THEN NoExc
    ELSE Exc("ValueError", <<"is not in list">>)

\* The first exception of a sequence of steps.
RECURSIVE FirstRaised(_)
FirstRaised(steps) ==
    IF steps = <<>> THEN NoExc
    ELSE IF Head(steps) # NoExc THEN Head(steps)
    ELSE FirstRaised(Tail(steps))

\* The exception the widgets of profile_page raise on the stored profile.
profile_form_raised(user_data) ==
    FirstRaised(<<
        number_input_raised("float", Get(user_data, "weight", PyFloat(70))),
        number_input_raised("float", Get(user_data, "height", PyFloat(170))),
        number_input_raised("int", Get(user_data, "age", PyInt(30))),
        number_input_raised("float", Get(user_data, "target_weight", PyFloat(65))),
        index_raised(GoalOptions, Get(user_data, "goal", PyStr("Maintenance"))),
        index_raised(ActivityOptions,
                     Get(user_data, "exercise_level", PyStr("Moderate"))),
        index_raised(DietOptions,
                     Get(user_data, "dietary_pref", PyStr("Vegetarian")))>>)

\* The values the widgets of profile_page hold before the user touches
\* them: each widget's default is read from the stored profile.
ProfileForm(user_data) ==
    [weight |-> Get(user_data, "weight", PyFloat(70)),
     height |-> Get(user_data, "height", PyFloat(170)),
     age |-> Get(user_data, "age", PyInt(30)),
     gender |-> PyStr(GenderOptions[IF Get(user_data, "gender", PyNone)
                                          = PyStr("Male") THEN 1 ELSE 2]),
     target_weight |-> Get(user_data, "target_weight", PyFloat(65)),
     goal |-> Get(user_data, "goal", PyStr("Maintenance")),
     exercise_level |-> Get(user_data, "exercise_level", PyStr("Moderate")),
     dietary_pref |-> Get(user_data, "dietary_pref", PyStr("Vegetarian")),
     allergies |-> Get(user_data, "allergies", PyList(<<>>))]

\* Mutant of ProfileRecord: a dict without the target weight.
ProfileRecordPartial(form) ==
    [weight |-> form.weight, height |-> form.height, age |-> form.age,
     gender |-> form.gender, goal |-> form.goal,
     exercise_level |-> form.exercise_level,
     dietary_pref |-> form.dietary_pref, allergies |-> form.allergies,
     last_updated |-> PyStr(Today)]

\* The dict that "Save Profile" builds from the form.
ProfileRecord(form) ==
    [weight |-> form.weight, height |-> form.height, age |-> form.age,
     gender |-> form.gender, target_weight |-> form.target_weight,
     goal |-> form.goal, exercise_level |-> form.exercise_level,
     dietary_pref |-> form.dietary_pref, allergies |-> form.allergies,
     last_updated |-> PyStr(Today)]

profile_page(btn, inp) ==
    LET user_data == load_data(user_data_file)
        form == IF inp.profile = NoForm THEN ProfileForm(user_data)
                ELSE inp.profile
        save == st_button("Save Profile", btn)
    IN  IF profile_form_raised(user_data) # NoExc
        THEN [Same EXCEPT
                 !.reads = (ProfileKeys \ {"last_updated"}) \cap DOMAIN user_data,
                 !.esc = profile_form_raised(user_data)]
        ELSE [Same EXCEPT
                 !.reads = (ProfileKeys \ {"last_updated"}) \cap DOMAIN user_data,
                 !.form = form,
                 !.user = IF save THEN save_data(ProfileRecord(form)) ELSE @,
                 !.shown = {"Save Profile"} \cup
                           (IF save THEN {"success: Profile updated successfully!"}
                            ELSE {})]

\* sum(item['calories'] for item in result['food_items'])
RECURSIVE SumCalories(_)
SumCalories(items) ==
    IF items = <<>> THEN 0 ELSE Head(items).calories + SumCalories(Tail(items))

\* Mutant of ExceptException: an except clause that names one exception type.
ExceptKeyErrorOnly(type) == type = "KeyError"

\* "except Exception": every exception the analysis can raise derives from it
ExceptException(type) ==
    type \in {"ValueError", "TypeError", "KeyError", "ZeroDivisionError"}

\* The row "Add to Food Log" builds from the analysis result.
AnalyzedEntry(type, result, inp) ==
    LET label == type = "Food Label"
        total_calories == IF label THEN result.nutrition_data.calories
                          ELSE SumCalories(result.food_items)
    IN  [date |-> Today, meal_type |-> inp.meal_type,
         food_item |-> inp.food_name,
         calories |-> FloatText(total_calories),
         protein |-> IF label
                     THEN FloatText(Get(result.nutrition_data, "protein", 0))
                     ELSE IntText(0),
         carbs |-> IF label
                   THEN FloatText(Get(result.nutrition_data, "carbohydrates", 0))
                   ELSE IntText(0),
         fat |-> IF label THEN FloatText(Get(result.nutrition_data, "fat", 0))
                 ELSE IntText(0)]

\* The row "Add Food Item" builds from the manual entry form.
ManualEntry(food) ==
    [date |-> Today, meal_type |-> food.meal_type, food_item |-> food.food_name,
     calories |-> FloatText(food.calories), protein |-> FloatText(food.protein),
     carbs |-> FloatText(food.carbs), fat |-> FloatText(food.fat)]

\* The try block of the first tab once analyze_nutrition (or the import
\* before it) has ended with result: the display, the nested button, and
\* the except clause.
analysis_try(result, btn, inp, type) ==
    LET \* result['nutrition_data']['calories'] of the display
        display == IF result.raised # NoExc THEN result.raised
                   ELSE IF type = "Food Label"
                           /\ "calories" \notin DOMAIN result.value.nutrition_data
                   THEN Exc("KeyError", <<"'calories'">>)
                   ELSE NoExc
        add == st_button("Add to Food Log", btn)
        food_log == concat(load_food_log(food_log_file),
                           <<AnalyzedEntry(type, result.value, inp)>>)
    IN  IF display = NoExc
        THEN [Same EXCEPT
                 !.req = result.requests, !.an = result,
                 !.food = IF add THEN save_food_log(food_log) ELSE @,
                 !.shown = {"Analyze", "section: Analysis Results",
                            "Add to Food Log"} \cup
                           (IF add
                            THEN {"success: Food added to log successfully!"}
                            ELSE {})]
        ELSE IF ExceptException(display.type)
        THEN [Same EXCEPT
                 !.req = result.requests, !.an = result,
                 !.err = <<"Error during analysis: ">> \o display.msg,
                 !.shown = {"Analyze", "error: Error during analysis"}]
        ELSE [Same EXCEPT
                 !.req = result.requests, !.an = result,
                 !.shown = {"Analyze"}, !.esc = display]

\* The first tab: "if uploaded_file and st.button("Analyze")", the import
\* and the call of analyze_nutrition.
analysis_tab(btn, inp, file, type) ==
    IF file = "none" THEN Same
    ELSE IF ~st_button("Analyze", btn) THEN [Same EXCEPT !.shown = {"Analyze"}]
    ELSE IF import_app(api_key) # NoExc
    THEN analysis_try(Raised(import_app(api_key), 0), btn, inp, type)
    ELSE analysis_try(analyze_nutrition(file, type, inp.reply), btn, inp, type)

\* The second tab and today's log, after the first tab left tab1.
manual_tab(tab1, btn, inp) ==
    LET add == st_button("Add Food Item", btn)
        food_log == concat(load_food_log(tab1.food), <<ManualEntry(inp.food)>>)
        saved == IF add THEN save_food_log(food_log) ELSE tab1.food
        today_log == load_food_log(saved)
    IN  IF tab1.esc # NoExc THEN tab1
        ELSE [tab1 EXCEPT
                 !.food = saved,
                 !.shown = @ \cup {"section: Manual Food Entry", "Add Food Item",
                                   "section: Today's Food Log"}
                             \cup (IF add
                                   THEN {"success: Food item added to log!"}
                                   ELSE {})
                             \cup (IF today_log # <<>>
                                   THEN {"table: today's food log"} ELSE {})]

food_analyzer_page(btn, inp, file, type) ==
    manual_tab(analysis_tab(btn, inp, file, type), btn, inp)

\* Mutant of exercise_page: the page without its "if not user_data" return.
exercise_page_ungated(btn, inp) ==
    LET exercise_type == inp.exercise.exercise_type
        duration == inp.exercise.duration
        calories_burned ==
            duration * EXERCISE_CATEGORIES[exercise_type].calories_per_minute
        log == st_button("Log Exercise", btn)
        new_entry == [date |-> Today, exercise_type |-> exercise_type,
                      exercise |-> inp.exercise.exercise,
                      duration |-> IntText(duration),
                      calories_burned |-> IntText(calories_burned)]
        workout_log == concat(load_workout_log(workout_log_file), <<new_entry>>)
        saved == IF log THEN save_workout_log(workout_log) ELSE workout_log_file
    IN  [Same EXCEPT
            !.workout = saved,
            !.shown = {"Log Exercise"}
                      \cup (IF log THEN {"success: Exercise logged successfully!"}
                            ELSE {})
                      \cup (IF load_workout_log(saved) # <<>>
                            THEN {"table: today's exercise"} ELSE {})]

exercise_page(btn, inp) ==
    LET user_data == load_data(user_data_file)
        exercise_type == inp.exercise.exercise_type
        duration == inp.exercise.duration
        calories_burned ==
            duration * EXERCISE_CATEGORIES[exercise_type].calories_per_minute
        log == st_button("Log Exercise", btn)
        new_entry == [date |-> Today, exercise_type |-> exercise_type,
                      exercise |-> inp.exercise.exercise,
                      duration |-> IntText(duration),
                      calories_burned |-> IntText(calories_burned)]
        workout_log == concat(load_workout_log(workout_log_file), <<new_entry>>)
        saved == IF log THEN save_workout_log(workout_log) ELSE workout_log_file
    IN  IF IsEmpty(user_data)
        THEN [Same EXCEPT !.shown = {"warning: Please complete your profile first!"}]
        ELSE [Same EXCEPT
                 !.workout = saved,
                 !.shown = {"Log Exercise"}
                           \cup (IF log THEN {"success: Exercise logged successfully!"}
                                 ELSE {})
                           \cup (IF load_workout_log(saved) # <<>>
                                 THEN {"table: today's exercise"} ELSE {})]

progress_tracker_page(btn, inp) ==
    LET user_data == load_data(user_data_file)
        progress_df == load_progress(progress_file)
        log == st_button("Log Weight", btn)
        \* the columns new_entry lacks are filled with nan by concat
        new_entry == [date |-> Today, weight |-> FloatText(inp.weight),
                      calories_consumed |-> NaN, exercise_minutes |-> NaN]
        logged_df == IF log THEN concat(progress_df, <<new_entry>>)
                     ELSE progress_df
    IN  IF IsEmpty(user_data)
        THEN [Same EXCEPT !.shown = {"warning: Please complete your profile first!"}]
        ELSE IF "weight" \notin DOMAIN user_data
        THEN [Same EXCEPT !.esc = KeyError({"weight"})]
        ELSE IF number_input_raised("float", user_data.weight) # NoExc
        THEN [Same EXCEPT !.reads = {"weight"},
                          !.esc = number_input_raised("float", user_data.weight)]
        ELSE [Same EXCEPT
                 !.reads = {"weight"},
                 !.progress = IF log THEN save_progress(logged_df) ELSE @,
                 !.shown = {"Log Weight"}
                           \cup (IF log THEN {"success: Weight logged successfully!"}
                                 ELSE {})
                           \cup (IF Len(logged_df) > 0
                                 THEN {"chart: Weight Over Time"} ELSE {})
                           \cup (IF Len(logged_df) > 1
                                 THEN {"metric: Total Weight Change"} ELSE {})]

\* main(): the sidebar, then the selected page.  The result carries the
\* profile keys read by the sidebar and by the page.
main(pg, btn, inp, file, type) ==
    LET user_data == load_data(user_data_file)
        sidebar == IF IsEmpty(user_data) THEN {} ELSE SidebarKeys
    IN  IF ~(sidebar \subseteq DOMAIN user_data)
        THEN [Same EXCEPT !.esc = KeyError(sidebar),
                          !.reads = [sidebar |-> sidebar \cap DOMAIN user_data,
                                     page |-> {}]]
        ELSE [(CASE pg = "Home" -> home_page
                 [] pg = "User Profile" -> profile_page(btn, inp)
                 [] pg = "Food Analyzer" ->
                        food_analyzer_page(btn, inp, file, type)
                 [] pg = "Exercise Tracker" -> exercise_page(btn, inp)
                 [] pg = "Progress Tracker" -> progress_tracker_page(btn, inp))
              EXCEPT !.reads = [sidebar |-> sidebar, page |-> @]]

(***************************************************************************)
(* The session: widget values the user can enter, and the events that      *)
(* rerun the script.                                                       *)
(***************************************************************************)
FoodNames == {"Apple", "NA"}
\* What the user sets the weight or the allergies widget to.
ProfileWeights == {80}
ProfileAllergies == {<<"Nuts", "Soy">>}
ImageFiles == {"decodable", "corrupt"}
ImageTypes == {"Food Label", "Food Image"}

\* The profile form after the user has set one of its widgets.
EditedForms(form) ==
    {[form EXCEPT !.weight = PyFloat(w)] : w \in ProfileWeights}
        \cup {[form EXCEPT !.allergies = PyList([i \in 1..Len(a) |-> PyStr(a[i])])] :
                  a \in ProfileAllergies}

DefaultFood ==
    [meal_type |-> "Breakfast", food_name |-> "", calories |-> 0,
     protein |-> 0, carbs |-> 0, fat |-> 0]
DefaultExercise ==
    [exercise_type |-> "Cardio", exercise |-> "Walking", duration |-> 1]
DefaultInputs ==
    [profile |-> NoForm, food |-> DefaultFood,
     exercise |-> DefaultExercise, weight |-> 70, reply |-> NoReply,
     meal_type |-> "Breakfast", food_name |-> "Analyzed Food Item"]

\* The widget values a click on button b can come with.
Inputs(b) ==
    CASE b = "Save Profile" ->
           {[DefaultInputs EXCEPT !.profile = form] :
                form \in EditedForms(ProfileForm(load_data(user_data_file)))}
      [] b = "Add Food Item" ->
           {[DefaultInputs EXCEPT !.food.food_name = n, !.food.calories = 100]
                : n \in FoodNames}
      [] b = "Log Exercise" ->
           {[DefaultInputs EXCEPT !.exercise.duration = 30]}
      [] b = "Log Weight" ->
           {[DefaultInputs EXCEPT !.weight = load_data(user_data_file).weight.v]}
      [] b = "Analyze" ->
           {[DefaultInputs EXCEPT !.reply = r] : r \in ModelReplies}
      [] OTHER -> {DefaultInputs}

\* The bound on each log's length.
RowsLeft(b) ==
    CASE b \in {"Add Food Item", "Add to Food Log"} ->
           Len(food_log_file.rows) < MaxFoodRows
      [] b = "Log Exercise" -> Len(workout_log_file.rows) < MaxWorkoutRows
      [] b = "Log Weight" -> Len(progress_file.rows) < MaxProgressRows
      [] OTHER -> TRUE

\* One script run: main() from the top with the given widget state.
Run(pg, btn, inp, file, type) ==
    \E fx \in {main(pg, btn, inp, file, type)} :
        /\ page' = pg
        /\ uploaded_file' = file
        /\ image_type' = type
        /\ clicked' = btn
        /\ model_reply' = inp.reply
        /\ user_data_file' = fx.user
        /\ progress_file' = fx.progress
        /\ food_log_file' = fx.food
        /\ workout_log_file' = fx.workout
        /\ shown' = fx.shown
        /\ st_error' = fx.err
        /\ profile_reads' = fx.reads
        /\ escaped' = fx.esc
        /\ model_requests' = fx.req
        /\ analysis' = fx.an
        /\ profile_form' = fx.form
        /\ UNCHANGED <<api_key, sessions, call>>

\* The sidebar radio: the widgets of the page left lose their values.
Navigate ==
    \E pg \in Pages \ {page} :
        Run(pg, "none", DefaultInputs, "none", "Food Label")

\* The file uploader of the Food Analyzer page.
Upload ==
    /\ page = "Food Analyzer"
    /\ \E file \in (ImageFiles \cup {"none"}) \ {uploaded_file} :
           Run(page, "none", DefaultInputs, file, image_type)

\* The radio "What are you uploading?".
SelectImageType ==
    /\ page = "Food Analyzer"
    /\ \E type \in ImageTypes \ {image_type} :
           Run(page, "none", DefaultInputs, uploaded_file, type)

\* A click on a button the last run rendered.
Click ==
    \E b \in shown \cap ButtonLabels :
        /\ RowsLeft(b)
        /\ \E inp \in Inputs(b) : Run(page, b, inp, uploaded_file, image_type)

NoSessions == <<>>
NoCall == [fn |-> "none"]

\* The first run of the script: the Home page, no log written yet.  The
\* profile file is absent or holds an empty object.
Init ==
    /\ user_data_file \in {AbsentProfile, save_data(EmptyProfile)}
    /\ progress_file = AbsentFile
    /\ food_log_file = AbsentFile
    /\ workout_log_file = AbsentFile
    /\ api_key \in BOOLEAN
    /\ page = "Home"
    /\ uploaded_file = "none"
    /\ image_type = "Food Label"
    /\ clicked = "none"
    /\ model_reply = NoReply
    /\ shown = home_page.shown
    /\ st_error = <<>>
    /\ profile_reads = [sidebar |-> {}, page |-> {}]
    /\ escaped = NoExc
    /\ model_requests = 0
    /\ analysis = NotRun
    /\ profile_form = NoForm
    /\ sessions = NoSessions
    /\ call = NoCall

Next == Navigate \/ Upload \/ SelectImageType \/ Click

Spec == Init /\ [][Next]_vars

(***************************************************************************)
(* Claims checked under Spec.                                              *)
(***************************************************************************)
IsPrefix(a, b) == Len(a) <= Len(b) /\ SubSeq(b, 1, Len(a)) = a
Grows(old, new) == Len(new.rows) = Len(old.rows) + 1
LoggingButtons == {"Add Food Item", "Add to Food Log", "Log Exercise",
                   "Log Weight"}
NoProfile == IsEmpty(load_data(user_data_file))

\* C1: the three logs are append-only: across every interaction each row
\* that was in a log file is still there, at the same position and
\* unchanged, and a logging interaction adds exactly one row to exactly
\* one log.
C1_AppendOnly ==
    [][/\ IsPrefix(food_log_file.rows, food_log_file'.rows)
       /\ IsPrefix(workout_log_file.rows, workout_log_file'.rows)
       /\ IsPrefix(progress_file.rows, progress_file'.rows)
       /\ clicked' \in LoggingButtons =>
              Cardinality({f \in {<<food_log_file, food_log_file'>>,
                                  <<workout_log_file, workout_log_file'>>,
                                  <<progress_file, progress_file'>>} :
                              f[1] # f[2]}) = 1
       /\ food_log_file' # food_log_file =>
              Grows(food_log_file, food_log_file')
       /\ workout_log_file' # workout_log_file =>
              Grows(workout_log_file, workout_log_file')
       /\ progress_file' # progress_file =>
              Grows(progress_file, progress_file')]_vars

\* C3: a run triggered by a click on Analyze lets no exception escape,
\* leaves the food log file as it was, shows the failure of the analysis
\* as an st.error carrying the exception's text, and renders the manual
\* entry tab and today's log.
C3_AnalyzeFailuresCaught ==
    [][clicked' = "Analyze" =>
          /\ escaped' = NoExc
          /\ food_log_file' = food_log_file
          /\ analysis'.raised # NoExc =>
                 /\ "error: Error during analysis" \in shown'
                 /\ st_error' = <<"Error during analysis: ">>
                                    \o analysis'.raised.msg
          /\ {"section: Manual Food Entry", "Add Food Item",
              "section: Today's Food Log"} \subseteq shown']_vars

\* C3 witness: an Analyze click whose import failed on the missing key has
\* shown the error and the rest of the page.
C3_Witness ==
    /\ clicked = "Analyze"
    /\ ~api_key
    /\ analysis.raised.type = "ValueError"
    /\ "error: Error during analysis" \in shown
    /\ "section: Today's Food Log" \in shown
    /\ escaped = NoExc

\* C4: an Analyze run whose image preprocessing succeeded has sent exactly
\* one request to the hosted model, and a failure of it is surfaced as a
\* ValueError carrying the original error text.
C4_OneRequest ==
    (/\ clicked = "Analyze"
     /\ api_key
     /\ preprocess_image(uploaded_file).raised = NoExc)
        => /\ model_requests = 1
           /\ analysis.raised # NoExc =>
                  /\ analysis.raised.type = "ValueError"
                  /\ Len(analysis.raised.msg) >= 2

\* The replies that json.loads parses into what the image type asks for.
Parseable(reply, type) ==
    /\ StripFence(reply) = "json"
    /\ type = "Food Label" => "calories" \in DOMAIN reply.body
    /\ type = "Food Image" => "food_items" \in DOMAIN reply.body

\* C8: analyze_nutrition returns, or raises a ValueError that starts with
\* "Analysis failed: "; with a decodable image and a parseable reply it
\* returns the label record (nutrition_data and its health score) or the
\* food image record (food_items, calories = total_calories, zero macros).
C8_AnalyzeResult ==
    (clicked = "Analyze" /\ api_key) =>
        /\ analysis.raised # NoExc =>
               /\ analysis.raised.type = "ValueError"
               /\ Head(analysis.raised.msg) = "Analysis failed: "
        /\ (/\ preprocess_image(uploaded_file).raised = NoExc
            /\ Parseable(model_reply, image_type)) =>
               /\ analysis.raised = NoExc
               /\ analysis.value.nutrition_data =
                      IF image_type = "Food Label" THEN model_reply.body
                      ELSE [calories |-> model_reply.body.total_calories,
                            protein |-> 0, carbohydrates |-> 0, fat |-> 0]
               /\ image_type = "Food Label" =>
                      analysis.value.health_score =
                          calculate_health_score(model_reply.body)
               /\ image_type = "Food Image" =>
                      analysis.value.food_items = model_reply.body.food_items

\* C9: an Analyze run on a decodable image with a parseable reply displays
\* the results and offers "Add to Food Log" (so that the append can follow
\* the Analyze click), and a run triggered by a click on "Add to Food Log"
\* appends exactly one row, dated today, and shows the success message.
C9_AddToFoodLog ==
    [][/\ (/\ clicked' = "Analyze"
           /\ api_key
           /\ preprocess_image(uploaded_file').raised = NoExc
           /\ Parseable(model_reply', image_type'))
              => {"section: Analysis Results", "Add to Food Log"}
                     \subseteq shown'
       /\ clicked' = "Add to Food Log" =>
              /\ Grows(food_log_file, food_log_file')
              /\ food_log_file'.rows[Len(food_log_file'.rows)].date = Today
              /\ "success: Food added to log successfully!" \in shown']_vars

\* C10: while load_data gives an empty profile, a run of the Exercise
\* Tracker or Progress Tracker page writes neither the workout log nor the
\* progress file and renders no button, and a run of the Home page reads
\* no profile key; the Food Analyzer page is not gated.
C10_ProfileGating ==
    [][NoProfile =>
          /\ page' \in {"Exercise Tracker", "Progress Tracker"} =>
                 /\ workout_log_file' = workout_log_file
                 /\ progress_file' = progress_file
                 /\ shown' \cap ButtonLabels = {}
          /\ page' = "Home" => profile_reads'.page = {}
          /\ page' = "Food Analyzer" => "Add Food Item" \in shown']_vars

\* C10 witness: with no profile stored, a manual entry is in the food log
\* and the Exercise Tracker shows only its warning.
C10_Witness ==
    /\ NoProfile
    /\ Len(food_log_file.rows) >= 1
    /\ page = "Exercise Tracker"
    /\ shown = {"warning: Please complete your profile first!"}
    /\ ~workout_log_file.exists
    /\ ~progress_file.exists

\* The profile keys that main's sidebar, home_page and
\* progress_tracker_page subscript.
KeysRead == SidebarKeys \cup HomeKeys \cup {"weight"}
StoredProfile == load_data(user_data_file)

\* C11: a run triggered by Save Profile leaves a profile file from which
\* load_data returns a record of exactly the ten keys, each form key
\* holding the value (and the type) the form widget held in that run and
\* last_updated holding today's date, and leaves the three log files as
\* they were; no other run changes the profile file; the stored profile is
\* always empty, absent, or has every key that the sidebar, home_page and
\* progress_tracker_page read, and on a stored profile those reads all
\* happen and no run ends in a KeyError.
C11_ProfileReplaced ==
    [][\E old \in {StoredProfile} : \E new \in {StoredProfile'} :
          /\ clicked' = "Save Profile" =>
                 /\ user_data_file'.exists
                 /\ DOMAIN new = ProfileKeys
                 /\ \A k \in ProfileKeys \ {"last_updated"} :
                        new[k] = profile_form'[k]
                 /\ new.last_updated = PyStr(Today)
                 /\ food_log_file' = food_log_file
                 /\ workout_log_file' = workout_log_file
                 /\ progress_file' = progress_file
          /\ clicked' # "Save Profile" => user_data_file' = user_data_file
          /\ IsEmpty(old) \/ KeysRead \subseteq DOMAIN old
          /\ IsEmpty(new) \/ KeysRead \subseteq DOMAIN new
          /\ escaped'.type # "KeyError"
          /\ ~IsEmpty(old) =>
                 /\ profile_reads'.sidebar = SidebarKeys
                 /\ page' = "Home" => profile_reads'.page = HomeKeys
                 /\ page' = "Progress Tracker" =>
                        profile_reads'.page = {"weight"}]_vars

\* C11 witness: a second Save Profile has replaced a stored profile (a
\* click changes one widget, and both the weight and the allergies differ
\* from the form's defaults) while the food log holds a row, and the file
\* reads back as the form's values.
C11_Witness ==
    /\ clicked = "Save Profile"
    /\ "success: Profile updated successfully!" \in shown
    /\ DOMAIN StoredProfile = ProfileKeys
    /\ StoredProfile.weight = PyFloat(80)
    /\ StoredProfile.age = PyInt(30)
    /\ StoredProfile.allergies = PyList(<<PyStr("Nuts"), PyStr("Soy")>>)
    /\ StoredProfile.weight = profile_form.weight
    /\ profile_reads.sidebar = SidebarKeys
    /\ Len(food_log_file.rows) >= 1

(***************************************************************************)
(* SpecSessions: two sessions run the "Add Food Item" handler of           *)
(* food_analyzer_page on the same food log file, one statement at a time:  *)
(* load_food_log, the concat in memory, save_food_log.                     *)
(***************************************************************************)
Sessions == {"A", "B"}

IdleSession ==
    [pc |-> "idle", loaded |-> EmptyDataFrame, new_entry |-> EmptyDataFrame,
     food_log |-> EmptyDataFrame]

\* food_log = load_food_log()
SessionLoad(s) ==
    /\ sessions[s].pc \in {"idle", "saved"}
    /\ Len(food_log_file.rows) < MaxFoodRows
    /\ sessions' = [sessions EXCEPT
                       ![s] = [pc |-> "loaded",
                               loaded |-> load_food_log(food_log_file),
                               new_entry |-> EmptyDataFrame,
                               food_log |-> load_food_log(food_log_file)]]
    /\ UNCHANGED <<food_log_file, otherVars>>

\* new_entry = pd.DataFrame({...}); food_log = pd.concat([food_log, new_entry])
SessionConcat(s) ==
    /\ sessions[s].pc = "loaded"
    /\ \E inp \in Inputs("Add Food Item") :
           sessions' = [sessions EXCEPT
                           ![s].pc = "concatenated",
                           ![s].new_entry = <<ManualEntry(inp.food)>>,
                           ![s].food_log =
                               concat(@, <<ManualEntry(inp.food)>>)]
    /\ UNCHANGED <<food_log_file, otherVars>>

\* Mutant of SessionSave: a save that appends the new row to the file as it
\* is now.
SessionSaveMerging(s) ==
    /\ sessions[s].pc = "concatenated"
    /\ food_log_file' = save_food_log(concat(load_food_log(food_log_file),
                                             sessions[s].new_entry))
    /\ sessions' = [sessions EXCEPT ![s].pc = "saved"]
    /\ UNCHANGED otherVars

\* save_food_log(food_log)
SessionSave(s) ==
    /\ sessions[s].pc = "concatenated"
    /\ food_log_file' = save_food_log(sessions[s].food_log)
    /\ sessions' = [sessions EXCEPT ![s].pc = "saved"]
    /\ UNCHANGED otherVars

InitSessions ==
    /\ user_data_file = AbsentProfile
    /\ progress_file = AbsentFile
    /\ food_log_file = AbsentFile
    /\ workout_log_file = AbsentFile
    /\ api_key = TRUE
    /\ page = "Food Analyzer"
    /\ uploaded_file = "none"
    /\ image_type = "Food Label"
    /\ clicked = "none"
    /\ model_reply = NoReply
    /\ shown = {}
    /\ st_error = <<>>
    /\ profile_reads = [sidebar |-> {}, page |-> {}]
    /\ escaped = NoExc
    /\ model_requests = 0
    /\ analysis = NotRun
    /\ profile_form = NoForm
    /\ sessions = [s \in Sessions |-> IdleSession]
    /\ call = NoCall

NextSessions ==
    \E s \in Sessions : SessionLoad(s) \/ SessionConcat(s) \/ SessionSave(s)

SpecSessions == InitSessions /\ [][NextSessions]_vars

\* C2: whenever a session saves, the file becomes exactly the snapshot that
\* session loaded plus its own new row, whatever the other session wrote in
\* between: the last writer wins, nothing is merged or mixed.
C2_LastWriterWins ==
    [][\A s \in Sessions :
          (sessions[s].pc = "concatenated" /\ sessions'[s].pc = "saved") =>
              food_log_file' =
                  to_csv(sessions[s].loaded \o sessions[s].new_entry)]_vars

\* C2 witness: both sessions have saved different rows, and the file holds
\* only the row of one of them: the other session's write is lost.
C2_Witness ==
    /\ \A s \in Sessions : sessions[s].pc = "saved"
    /\ sessions["A"].new_entry # sessions["B"].new_entry
    /\ sessions["A"].loaded = EmptyDataFrame
    /\ sessions["B"].loaded = EmptyDataFrame
    /\ food_log_file = to_csv(sessions["B"].food_log)
    /\ Len(food_log_file.rows) = 1

(***************************************************************************)
(* SpecScore: calculate_health_score applied to nutrition records whose    *)
(* fields are missing or lie within Margin of their thresholds.            *)
(***************************************************************************)
Margin == 1
\* the mark of a field left out of the record
Missing == 0 - 1
Fields == {"calories", "sugar", "saturated_fat", "sodium", "protein"}
Around(f) == ((thresholds[f] - Margin)..(thresholds[f] + Margin)) \cup {Missing}
\* The dict with the keys that are not missing.
Present(c) == [k \in {f \in Fields : c[f] # Missing} |-> c[k]]
NutritionRecords ==
    {Present([calories |-> a, sugar |-> b, saturated_fat |-> c,
              sodium |-> d, protein |-> e]) :
        a \in Around("calories"), b \in Around("sugar"),
        c \in Around("saturated_fat"), d \in Around("sodium"),
        e \in Around("protein")}

InitPure ==
    /\ user_data_file = AbsentProfile
    /\ progress_file = AbsentFile
    /\ food_log_file = AbsentFile
    /\ workout_log_file = AbsentFile
    /\ api_key = TRUE
    /\ page = "Home"
    /\ uploaded_file = "none"
    /\ image_type = "Food Label"
    /\ clicked = "none"
    /\ model_reply = NoReply
    /\ shown = {}
    /\ st_error = <<>>
    /\ profile_reads = [sidebar |-> {}, page |-> {}]
    /\ escaped = NoExc
    /\ model_requests = 0
    /\ analysis = NotRun
    /\ profile_form = NoForm
    /\ sessions = NoSessions

InitScore ==
    /\ InitPure
    /\ \E nd \in NutritionRecords :
           call = [fn |-> "calculate_health_score", nutrition_data |-> nd,
                   done |-> FALSE, ret |-> NoValue]

CalculateHealthScore ==
    /\ call.fn = "calculate_health_score"
    /\ ~call.done
    /\ call' = [call EXCEPT !.done = TRUE,
                            !.ret = calculate_health_score(call.nutrition_data)]
    /\ UNCHANGED appVars

NextScore == CalculateHealthScore

SpecScore == InitScore /\ [][NextScore]_vars

\* A field's value, a missing field counting as 0.
ValueOrZero(nd, f) == IF f \in DOMAIN nd THEN nd[f] ELSE 0

\* C5: each component score is 1 exactly when calories <= 300, sugar <= 25,
\* saturated_fat <= 5, sodium <= 600, protein >= 5 (a missing field counting
\* as 0) and 0 otherwise, and total_score is 20 times the number of
\* components scoring 1.
C5_HealthScore ==
    call.done =>
        LET nd == call.nutrition_data
            scores == call.ret.component_scores
        IN  /\ DOMAIN scores = Fields
            /\ scores.calories = IF ValueOrZero(nd, "calories") <= 300 THEN 1 ELSE 0
            /\ scores.sugar = IF ValueOrZero(nd, "sugar") <= 25 THEN 1 ELSE 0
            /\ scores.saturated_fat =
                   IF ValueOrZero(nd, "saturated_fat") <= 5 THEN 1 ELSE 0
            /\ scores.sodium = IF ValueOrZero(nd, "sodium") <= 600 THEN 1 ELSE 0
            /\ scores.protein = IF ValueOrZero(nd, "protein") >= 5 THEN 1 ELSE 0
            /\ \A f \in Fields \ DOMAIN nd :
                   scores[f] = IF f = "protein" THEN 0 ELSE 1
            /\ call.ret.total_score =
                   float(20 * Cardinality({f \in Fields : scores[f] = 1}))
            /\ call.ret.total_score
                   \in {float(0), float(20), float(40), float(60), float(80),
                        float(100)}

\* C5 witness: a record at the calories bound, over the sugar bound and
\* without protein scores 60.
C5_Witness ==
    /\ call.done
    /\ DOMAIN call.nutrition_data = {"calories", "sugar", "sodium"}
    /\ call.nutrition_data.calories = 300
    /\ call.nutrition_data.sugar = 26
    /\ call.nutrition_data.sodium = 600
    /\ call.ret.total_score = float(60)

(***************************************************************************)
(* SpecBmi: calculate_bmi on whole weights and heights spread over the     *)
(* ranges of the profile form, then get_bmi_category on the result         *)
(* (home_page).                                                            *)
(***************************************************************************)
\* st.number_input("Current Weight (kg)", 30.0, 200.0, ...)
MinWeight == 30
MaxWeight == 200
\* st.number_input("Height (cm)", 100.0, 250.0, ...)
MinHeight == 100
MaxHeight == 250
\* st.number_input("Age", 15, 100, ...)
MinAge == 15
MaxAge == 100

\* every WeightStride-th weight and HeightStride-th height of the form
WeightStride == 1
HeightStride == 5
Every(stride, lo, hi) == {n \in lo..hi : (n - lo) % stride = 0}

InitBmi ==
    /\ InitPure
    /\ \E w \in Every(WeightStride, MinWeight, MaxWeight),
          h \in Every(HeightStride, MinHeight, MaxHeight) :
           call = [fn |-> "calculate_bmi", weight |-> w, height |-> h,
                   stage |-> "input", bmi |-> NotRun, category |-> "none"]

CalculateBmi ==
    /\ call.fn = "calculate_bmi"
    /\ call.stage = "input"
    /\ call' = [call EXCEPT !.stage = "bmi",
                            !.bmi = calculate_bmi(call.weight, call.height)]
    /\ UNCHANGED appVars

GetBmiCategory ==
    /\ call.fn = "calculate_bmi"
    /\ call.stage = "bmi"
    /\ call.bmi.raised = NoExc
    /\ call' = [call EXCEPT !.stage = "category",
                            !.category = get_bmi_category(call.bmi.value)]
    /\ UNCHANGED appVars

NextBmi == CalculateBmi \/ GetBmiCategory

SpecBmi == InitBmi /\ [][NextBmi]_vars

CategoryRank ==
    ("Underweight" :> 0) @@ ("Normal weight" :> 1) @@ ("Overweight" :> 2)
        @@ ("Obese" :> 3)
\* BMI values (in hundredths) at and next to the category boundaries.
BoundaryBmis == {1, 1849, 1850, 1851, 2499, 2500, 2501, 2999, 3000, 3001, 20000}

\* C6: for the weights and heights the form accepts calculate_bmi is
\* defined and positive; get_bmi_category gives Underweight below 18.5,
\* Normal weight from 18.5 below 25, Overweight from 25 below 30 and Obese
\* from 30, and never a lower category for a larger BMI.
C6_BmiCategory ==
    /\ call.stage \in {"bmi", "category"} =>
           /\ call.bmi.raised = NoExc
           /\ call.bmi.value > 0
    /\ call.stage = "category" =>
           LET bmi == call.bmi.value
               category == call.category
           IN  /\ category \in DOMAIN CategoryRank
               /\ category = "Underweight" <=> bmi < 1850
               /\ category = "Normal weight" <=> (1850 <= bmi /\ bmi < 2500)
               /\ category = "Overweight" <=> (2500 <= bmi /\ bmi < 3000)
               /\ category = "Obese" <=> bmi >= 3000
               /\ \A other \in BoundaryBmis :
                      /\ other <= bmi =>
                             CategoryRank[get_bmi_category(other)]
                                 <= CategoryRank[category]
                      /\ other >= bmi =>
                             CategoryRank[get_bmi_category(other)]
                                 >= CategoryRank[category]

\* C6 witness: 100 kg at 200 cm is a BMI of exactly 25, and Overweight.
C6_Witness ==
    /\ call.stage = "category"
    /\ call.weight = 100
    /\ call.height = 200
    /\ call.bmi.value = 2500
    /\ call.category = "Overweight"

(***************************************************************************)
(* SpecCalories: calculate_daily_calories for persons spread over the      *)
(* ranges of the profile form, called for every gender, activity level and *)
(* goal in turn; call.ret collects the targets in the order of the calls.  *)
(***************************************************************************)
GridSteps == 3
Grid(lo, hi) == {lo + (i * (hi - lo)) \div GridSteps : i \in 0..GridSteps}
\* Two persons whose maintenance value lies next to a half: 1.2 times a
\* BMR of 1468.75 and of 1296.25
HalfwayPersons ==
    {[weight |-> 71, height |-> 175, age |-> 41],
     [weight |-> 65, height |-> 154, age |-> 53]}
Persons ==
    {[weight |-> w, height |-> h, age |-> a] :
        w \in Grid(MinWeight, MaxWeight), h \in Grid(MinHeight, MaxHeight),
        a \in Grid(MinAge, MaxAge)} \cup HalfwayPersons
Genders == <<"Male", "Female", "Other">>
ActivityLevels == <<"Sedentary", "Light", "Moderate", "Active", "Very Active">>
Goals == <<"Weight Loss", "Maintenance", "Weight Gain", "Recomposition">>

\* The place in call.ret of the call for gender g, level l and goal t, and
\* the gender, level and goal of the k-th call.
CallIndex(g, l, t) ==
    ((((g - 1) * Len(ActivityLevels)) + (l - 1)) * Len(Goals)) + t
NumCalls == Len(Genders) * Len(ActivityLevels) * Len(Goals)
GenderOf(k) == Genders[((k - 1) \div (Len(ActivityLevels) * Len(Goals))) + 1]
LevelOf(k) == ActivityLevels[(((k - 1) \div Len(Goals)) % Len(ActivityLevels)) + 1]
GoalOf(k) == Goals[((k - 1) % Len(Goals)) + 1]

InitCalories ==
    /\ InitPure
    /\ \E p \in Persons :
           call = [fn |-> "calculate_daily_calories", weight |-> p.weight,
                   height |-> p.height, age |-> p.age, ret |-> <<>>]

CalculateDailyCalories ==
    /\ call.fn = "calculate_daily_calories"
    /\ Len(call.ret) < NumCalls
    /\ call' = [call EXCEPT
                   !.ret = Append(@, calculate_daily_calories(
                                         call.weight, call.height, call.age,
                                         GenderOf(Len(call.ret) + 1),
                                         LevelOf(Len(call.ret) + 1),
                                         GoalOf(Len(call.ret) + 1)))]
    /\ UNCHANGED appVars

NextCalories == CalculateDailyCalories

SpecCalories == InitCalories /\ [][NextCalories]_vars

Computed(g, l, t) == CallIndex(g, l, t) <= Len(call.ret)
Target(g, l, t) == call.ret[CallIndex(g, l, t)]
\* The relations of C7 that hold of Python's arithmetic as they are stated:
\* any other goal gives the Maintenance target, a gender other than Male
\* the Female target, and a higher activity level no lower target.
GoalGenderLevel(g, l, t) ==
    /\ Goals[t] \notin {"Weight Loss", "Weight Gain"} /\ Computed(g, l, 2) =>
           Target(g, l, t) = Target(g, l, 2)
    /\ Genders[g] # "Male" /\ Computed(2, l, t) =>
           Target(g, l, t) = Target(2, l, t)
    /\ \A higher \in l..Len(ActivityLevels) :
           Computed(g, higher, t) => Target(g, higher, t) >= Target(g, l, t)

\* C7 as stated: the Weight Loss target is exactly 500 below and the Weight
\* Gain target exactly 500 above the Maintenance target of the same person,
\* gender and level; any other goal gives the Maintenance target, a gender
\* other than Male the Female target, and the target does not decrease
\* with the activity level.
C7_ExactOffsets ==
    call.fn = "calculate_daily_calories" =>
        \A g \in 1..Len(Genders), l \in 1..Len(ActivityLevels),
           t \in 1..Len(Goals) :
            Computed(g, l, t) =>
                /\ GoalGenderLevel(g, l, t)
                /\ Goals[t] = "Weight Loss" /\ Computed(g, l, 2) =>
                       Target(g, l, t) = Target(g, l, 2) - 500
                /\ Goals[t] = "Weight Gain" /\ Computed(g, l, 2) =>
                       Target(g, l, t) = Target(g, l, 2) + 500

\* C7, amended: the Weight Loss target is exactly 500 below the Maintenance
\* target of the same person, gender and level, and the Weight Gain target
\* is 499, 500 or 501 above it (the float sum maintenance + 500 can land on
\* a half that maintenance itself misses); any other goal gives the
\* Maintenance target, a gender other than Male the Female target, and the
\* target does not decrease with the activity level.
C7_DailyCalories ==
    call.fn = "calculate_daily_calories" =>
        \A g \in 1..Len(Genders), l \in 1..Len(ActivityLevels),
           t \in 1..Len(Goals) :
            Computed(g, l, t) =>
                /\ GoalGenderLevel(g, l, t)
                /\ Goals[t] = "Weight Loss" /\ Computed(g, l, 2) =>
                       Target(g, l, t) = Target(g, l, 2) - 500
                /\ Goals[t] = "Weight Gain" /\ Computed(g, l, 2) =>
                       Target(g, l, t) \in (Target(g, l, 2) + 499)
                                              ..(Target(g, l, 2) + 501)

\* C7 witness: every call made for the person of 71 kg, 175 cm and 41
\* years; with a gender that is neither Male nor Female and Sedentary the
\* Maintenance target is 1763, Weight Loss 1263 and Weight Gain 2262.
C7_Witness ==
    /\ call.fn = "calculate_daily_calories"
    /\ Len(call.ret) = NumCalls
    /\ call.weight = 71 /\ call.height = 175 /\ call.age = 41
    /\ Target(3, 1, 2) = 1763
    /\ Target(3, 1, 1) = 1263
    /\ Target(3, 1, 3) = 2262
    /\ Target(3, 1, 4) = 1763
    /\ Target(2, 1, 3) = 2262
    /\ Target(3, 5, 2) > Target(3, 1, 2)

=============================================================================
